---------------------------- MODULE Spec2Model ----------------------------
(***************************************************************************)
(* Bill allocation engine of bill-tracking: due-date arithmetic of Bill,   *)
(* the proration of Bill.needed_balance, the payment confirmation caches   *)
(* (JSON file and SQLite) and the margin computation of Ledger.calculate.  *)
(*                                                                         *)
(* Dates are day numbers, day 0 being 2020-01-01; the calendar operators   *)
(* below convert between day numbers and (year, month, day).  Money is in  *)
(* integer cents.                                                          *)
(***************************************************************************)
EXTENDS Integers, Sequences, FiniteSets, TLC

VARIABLES
    config,          \* the budget file: sequence of bill configurations
    bills,           \* Budget.bills: sequence of Bill records
    reserved,        \* Budget.reserved: sequence of reservation amounts (cents)
    minimum_balance, \* Budget.minimum_balance (cents)
    today,           \* date.today()
    backend,         \* which class PAYMENT_CACHE is: "json" or "sqlite"
    payments,        \* PaymentCacheJSON.payments: bill name -> set of dates
    payment_file,    \* payments.json: whether it exists, and bill name -> set of ISO dates
    table,           \* rows of the SQLite table payments: <<bill, ISO date>>
    confirmed,       \* history: occurrences the handler has confirmed as paid
    last             \* observation of the last operation: arguments and outcome

budgetVars == <<config, reserved, minimum_balance>>

cacheVars == <<payments, payment_file, table>>

vars == <<budgetVars, bills, today, backend, cacheVars, confirmed, last>>

-----------------------------------------------------------------------------
(* Bounds of the model *)

\* last day number a query date (on_day, start_date) is drawn from
MaxDay == 430

\* number of years, from 2020 on, the calendar tables cover
CalendarYears == 4

-----------------------------------------------------------------------------
(* The calendar: datetime.date *)

EpochYear == 2020

\* weekday of day 0 (2020-01-01 is a Wednesday; Monday = 0)
EpochWeekday == 2

IsLeap(y) == (y % 4 = 0) /\ ((y % 100 # 0) \/ (y % 400 = 0))

DaysInYear(y) == IF IsLeap(y) THEN 366 ELSE 365

DaysInMonth(y, m) ==
    IF m = 2 THEN (IF IsLeap(y) THEN 29 ELSE 28)
    ELSE IF m \in {4, 6, 9, 11} THEN 30 ELSE 31

RECURSIVE DaysBeforeYear(_)
DaysBeforeYear(y) ==
    IF y <= EpochYear THEN 0 ELSE DaysBeforeYear(y - 1) + DaysInYear(y - 1)

RECURSIVE DaysBeforeMonth(_, _)
DaysBeforeMonth(y, m) ==
    IF m <= 1 THEN 0 ELSE DaysBeforeMonth(y, m - 1) + DaysInMonth(y, m - 1)

ValidDate(y, m, d) ==
    /\ y >= EpochYear
    /\ m \in 1..12
    /\ d \in 1..DaysInMonth(y, m)

RECURSIVE YearFrom(_, _)
YearFrom(n, y) ==
    IF n < DaysInYear(y) THEN <<y, n>> ELSE YearFrom(n - DaysInYear(y), y + 1)

RECURSIVE MonthFrom(_, _, _)
MonthFrom(n, y, m) ==
    IF n < DaysInMonth(y, m) THEN <<m, n + 1>>
    ELSE MonthFrom(n - DaysInMonth(y, m), y, m + 1)

\* the calendar as tables, computed once: the day number of the first of
\* each month, and the (year, month, day) of each day number
FirstOfMonth ==
    [y \in EpochYear..(EpochYear + CalendarYears - 1), m \in 1..12 |->
        DaysBeforeYear(y) + DaysBeforeMonth(y, m)]

DateOfDay ==
    [n \in 0..(DaysBeforeYear(EpochYear + CalendarYears) - 1) |->
        LET yr == YearFrom(n, EpochYear)
            md == MonthFrom(yr[2], yr[1], 1)
        IN  [y |-> yr[1], m |-> md[1], d |-> md[2]]]

\* date(y, m, d) as a day number
Ord(y, m, d) == FirstOfMonth[y, m] + (d - 1)

\* the (year, month, day) of a day number
YMD(n) == DateOfDay[n]

\* date.weekday()
Weekday(n) == (n + EpochWeekday) % 7

\* date.isoformat(): the fields of "YYYY-MM-DD"
isoformat(n) == LET t == YMD(n) IN <<t.y, t.m, t.d>>

\* date.fromisoformat()
fromisoformat(s) == Ord(s[1], s[2], s[3])

-----------------------------------------------------------------------------
(* relativedelta: the billing cycle *)

\* relativedelta(years, months, weeks, days): weeks are kept as days, and
\* months beyond a year are carried into years
relativedelta(years, months, weeks, days) ==
    LET tm == years * 12 + months
        sg == IF tm < 0 THEN -1 ELSE 1
        am == sg * tm
    IN  [years  |-> sg * (am \div 12),
         months |-> sg * (am % 12),
         days   |-> days + 7 * weeks]

WEEKLY  == relativedelta(0, 0, 1, 0)
MONTHLY == relativedelta(0, 1, 0, 0)
YEARLY  == relativedelta(1, 0, 0, 0)

\* date + relativedelta: years and months first, the day clamped to the
\* length of the month reached, then the days
AddDelta(n, c) ==
    LET t  == YMD(n)
        tm == (t.y + c.years) * 12 + (t.m - 1) + c.months
        y2 == tm \div 12
        m2 == (tm % 12) + 1
        d2 == IF t.d > DaysInMonth(y2, m2) THEN DaysInMonth(y2, m2) ELSE t.d
    IN  Ord(y2, m2, d2) + c.days

\* date - relativedelta
SubDelta(n, c) ==
    AddDelta(n, [years |-> -c.years, months |-> -c.months, days |-> -c.days])


-----------------------------------------------------------------------------
(* Configuration values *)

\* lastPaid = None: no anchor configured (no day number is negative)
None == -1

\* the outcome of a date computation that raises ValueError
BadDate == -2

\* the outcome of t_timespan when it raises ValueError
ValueError == [error |-> "ValueError"]

\* a cycle given by name, and one given as a dictionary of relativedelta
\* arguments
CycleName(s) == [kind |-> "str", value |-> s]
CycleDict(years, months, weeks, days) ==
    [kind |-> "dict", years |-> years, months |-> months, weeks |-> weeks,
     days |-> days]

\* t_timespan
t_timespan(x) ==
    IF x.kind = "str"
    THEN IF x.value = "weekly" THEN WEEKLY
         ELSE IF x.value = "monthly" THEN MONTHLY
         ELSE IF x.value = "yearly" \/ x.value = "annual" THEN YEARLY
         ELSE ValueError
    ELSE relativedelta(x.years, x.months, x.weeks, x.days)

-----------------------------------------------------------------------------
(* Bill *)

\* Bill.__post_init__, WEEKLY branch: the latest day on or before today
\* that falls on the bill's weekday
RECURSIVE BackToWeekday(_, _)
BackToWeekday(n, weekday) ==
    IF Weekday(n) # weekday THEN BackToWeekday(n - 1, weekday) ELSE n

\* Bill.__post_init__: the anchor lastPaid when the configuration gives none
DefaultLastPaid(cycle, day, weekday, month, tdy) ==
    LET t == YMD(tdy) IN
    IF cycle = YEARLY
    THEN IF ~ValidDate(t.y, month, day) THEN BadDate
         ELSE LET lp == Ord(t.y, month, day)
              IN  IF tdy < lp THEN SubDelta(lp, YEARLY) ELSE lp
    ELSE IF cycle = MONTHLY
    THEN IF ValidDate(t.y, t.m, day)
         THEN LET lp == Ord(t.y, t.m, day)
              IN  IF tdy < lp THEN SubDelta(lp, MONTHLY) ELSE lp
         ELSE IF ValidDate(t.y, t.m - 1, day) THEN Ord(t.y, t.m - 1, day)
              ELSE BadDate
    ELSE IF cycle = WEEKLY
    THEN BackToWeekday(tdy, weekday)
    ELSE BadDate

\* Bill(...): the dataclass after __post_init__; ValueError when it raises
Bill(name, amount, cycleSpec, lastPaid, day, weekday, month, assumePaid, unpaid, tdy) ==
    LET cycle == t_timespan(cycleSpec)
        lp    == IF cycle = ValueError THEN BadDate
                 ELSE IF lastPaid = None
                      THEN DefaultLastPaid(cycle, day, weekday, month, tdy)
                      ELSE lastPaid
    IN  IF lp = BadDate THEN ValueError
        ELSE [name       |-> name,
              amount     |-> amount,
              cycle      |-> cycle,
              lastPaid   |-> lp,
              assumePaid |-> assumePaid,
              unpaid     |-> unpaid,
              paid_next  |-> FALSE]

\* Bill.is_due
RECURSIVE IsDueLoop(_, _, _)
IsDueLoop(cycle, last_billed, due_date) ==
    IF last_billed < due_date
    THEN IsDueLoop(cycle, AddDelta(last_billed, cycle), due_date)
    ELSE last_billed

is_due(bill, due_date) == due_date = IsDueLoop(bill.cycle, bill.lastPaid, due_date)

\* Bill.next_due_date
RECURSIVE NextDueLoop(_, _, _)
NextDueLoop(cycle, next_due, start_date) ==
    IF next_due < start_date
    THEN NextDueLoop(cycle, AddDelta(next_due, cycle), start_date)
    ELSE next_due

next_due_date(bill, start_date) == NextDueLoop(bill.cycle, bill.lastPaid, start_date)

\* Bill.last_due_date: the stepping loop
RECURSIVE LastDueLoop(_, _, _)
LastDueLoop(cycle, last_due, start_date) ==
    IF AddDelta(last_due, cycle) < start_date
    THEN LastDueLoop(cycle, AddDelta(last_due, cycle), start_date)
    ELSE last_due

\* Bill.last_due_date
RECURSIVE last_due_date(_, _, _)
last_due_date(bill, start_date, ignore_unpaid) ==
    LET last_due == LastDueLoop(bill.cycle, bill.lastPaid, start_date)
    IN  IF bill.unpaid /\ ~ignore_unpaid
        THEN last_due_date(bill, last_due, TRUE)
        ELSE last_due

-----------------------------------------------------------------------------
(* Pay days *)

\* pay_days_since
RECURSIVE PayDaysSinceLoop(_, _, _, _)
PayDaysSinceLoop(since_date, current, pay_period, pay_days) ==
    IF since_date <= current
    THEN PayDaysSinceLoop(since_date, current - pay_period, pay_period, pay_days + 1)
    ELSE pay_days

pay_days_since(since_date, last_pay_day, pay_period) ==
    PayDaysSinceLoop(since_date, last_pay_day, pay_period, 0)

\* pay_days_until
RECURSIVE PayDaysUntilLoop(_, _, _, _)
PayDaysUntilLoop(until_date, current, pay_period, pay_days) ==
    IF current < until_date
    THEN PayDaysUntilLoop(until_date, current + pay_period, pay_period, pay_days + 1)
    ELSE pay_days

pay_days_until(until_date, last_pay_day, pay_period) ==
    PayDaysUntilLoop(until_date, last_pay_day + pay_period, pay_period, 0)

\* is_pay_day
RECURSIVE PayDayDown(_, _, _)
PayDayDown(d, current, pay_period) ==
    IF d < current THEN PayDayDown(d, current - pay_period, pay_period) ELSE current

RECURSIVE PayDayUp(_, _, _)
PayDayUp(d, current, pay_period) ==
    IF current < d THEN PayDayUp(d, current + pay_period, pay_period) ELSE current

is_pay_day(d, last_pay_day, pay_period) ==
    IF d < last_pay_day
    THEN PayDayDown(d, last_pay_day, pay_period) = d
    ELSE PayDayUp(d, last_pay_day, pay_period) = d

-----------------------------------------------------------------------------
(* The payment caches.  A cache state c is the record of the in-memory    *)
(* dictionary and of the two persisted stores:                            *)
(*   c.payments, c.payment_file, c.table                                  *)

EmptyDict == [n \in {} |-> {}]

NoFile == [exists |-> FALSE, data |-> EmptyDict]

\* PaymentCacheJSON.load
JSON_load(c) ==
    IF c.payment_file.exists
    THEN [c EXCEPT !.payments =
            [n \in DOMAIN c.payment_file.data |->
                {fromisoformat(p) : p \in c.payment_file.data[n]}]]
    ELSE [c EXCEPT !.payments = EmptyDict]

\* PaymentCacheJSON.save
JSON_save(c) ==
    [c EXCEPT !.payment_file =
        [exists |-> TRUE,
         data   |-> [n \in DOMAIN c.payments |->
                        {isoformat(d) : d \in c.payments[n]}]]]

\* PaymentCacheJSON.__init__
JSON_init(c) == JSON_load([c EXCEPT !.payments = EmptyDict])

\* the dictionary with an empty set stored for a bill name it does not hold
WithBucket(pay, bill_name) ==
    IF bill_name \in DOMAIN pay THEN pay ELSE pay @@ (bill_name :> {})

\* PaymentCacheJSON.is_paid
JSON_is_paid(c, bill_name, paid_date) ==
    LET pay == WithBucket(c.payments, bill_name)
    IN  [c      |-> [c EXCEPT !.payments = pay],
         result |-> paid_date \in pay[bill_name],
         raised |-> FALSE]

\* mark_paid that adds the entry in memory and does not save
JSON_mark_paid_unsaved(c, bill_name, paid_date) ==
    LET pay == WithBucket(c.payments, bill_name)
        add == [pay EXCEPT ![bill_name] = @ \cup {paid_date}]
    IN  [c |-> [c EXCEPT !.payments = add], raised |-> FALSE]

\* PaymentCacheJSON.mark_paid
JSON_mark_paid(c, bill_name, paid_date) ==
    LET pay == WithBucket(c.payments, bill_name)
        add == [pay EXCEPT ![bill_name] = @ \cup {paid_date}]
    IN  [c |-> JSON_save([c EXCEPT !.payments = add]), raised |-> FALSE]

\* PaymentCacheSqlite.__init__: the in-memory dictionary stays empty and
\* CREATE TABLE IF NOT EXISTS keeps the rows
Sqlite_init(c) == [c EXCEPT !.payments = EmptyDict]

\* PaymentCacheSqlite.is_paid
Sqlite_is_paid(c, bill_name, paid_date) ==
    [c      |-> c,
     result |-> <<bill_name, isoformat(paid_date)>> \in c.table,
     raised |-> FALSE]

\* PaymentCacheSqlite.mark_paid: the INSERT fails on the primary key
\* (bill, date) when the row exists, and nothing is committed then
Sqlite_mark_paid(c, bill_name, paid_date) ==
    LET row == <<bill_name, isoformat(paid_date)>>
    IN  IF row \in c.table
        THEN [c |-> c, raised |-> TRUE]
        ELSE [c |-> [c EXCEPT !.table = @ \cup {row}], raised |-> FALSE]

\* PAYMENT_CACHE = PaymentCache(): one of the two classes
PaymentCache_init(bk, c) ==
    IF bk = "json" THEN JSON_init(c) ELSE Sqlite_init(c)

PaymentCache_is_paid(bk, c, bill_name, paid_date) ==
    IF bk = "json" THEN JSON_is_paid(c, bill_name, paid_date)
    ELSE Sqlite_is_paid(c, bill_name, paid_date)

PaymentCache_mark_paid(bk, c, bill_name, paid_date) ==
    IF bk = "json" THEN JSON_mark_paid(c, bill_name, paid_date)
    ELSE Sqlite_mark_paid(c, bill_name, paid_date)

-----------------------------------------------------------------------------
(* Bill.needed_balance *)

\* round(x, 2) of the amount a / b cents: to the nearest cent, a half to
\* the even cent
RoundDiv(a, b) ==
    LET n == IF b < 0 THEN -a ELSE a
        d == IF b < 0 THEN -b ELSE b
        q == n \div d
        r == n - q * d
    IN  IF 2 * r < d THEN q
        ELSE IF 2 * r > d THEN q + 1
        ELSE IF q % 2 = 0 THEN q ELSE q + 1

\* recent_days
RecentDays == 3

\* the test of the recent window: date.today() - last_payment <= 3 days
Recent(tdy, last_payment) == tdy - last_payment <= RecentDays

\* the bill occurrences from current on that fall before next_pay_day
RECURSIVE PaymentsBeforeLoop(_, _, _, _)
PaymentsBeforeLoop(cycle, current, next_pay_day, n) ==
    IF current < next_pay_day
    THEN PaymentsBeforeLoop(cycle, AddDelta(current, cycle), next_pay_day, n + 1)
    ELSE n

\* the count of pay days since the last payment, a last payment that is
\* itself a pay day not counted
PayDaysSinceLastPayment(last_payment, last_pay_day, pay_period) ==
    IF is_pay_day(last_payment, last_pay_day, pay_period)
    THEN pay_days_since(last_payment, last_pay_day, pay_period) - 1
    ELSE pay_days_since(last_payment, last_pay_day, pay_period)

\* Proration without the count of the payments before the next pay day: a
\* bill is prorated whenever its cycle has pay days
Proration_uncounted(bill, last_payment, next_payment, last_pay_day, pay_period) ==
    LET since  == PayDaysSinceLastPayment(last_payment, last_pay_day, pay_period)
        until  == pay_days_until(next_payment, last_pay_day, pay_period)
        total  == since + until
        before == PaymentsBeforeLoop(bill.cycle, AddDelta(last_payment, bill.cycle),
                                     last_pay_day + pay_period, 0)
    IN  IF total = 0
        THEN bill.amount * before
        ELSE RoundDiv(bill.amount * since, total)

\* needed_balance from the pay-day counts on: the allocation of the bill
Proration(bill, last_payment, next_payment, last_pay_day, pay_period) ==
    LET since  == PayDaysSinceLastPayment(last_payment, last_pay_day, pay_period)
        until  == pay_days_until(next_payment, last_pay_day, pay_period)
        total  == since + until
        before == PaymentsBeforeLoop(bill.cycle, AddDelta(last_payment, bill.cycle),
                                     last_pay_day + pay_period, 0)
    IN  IF before > 1 \/ total = 0
        THEN bill.amount * before
        ELSE RoundDiv(bill.amount * since, total)

\* needed_balance when the handler answers that the bill was not paid: the
\* flag is set and the full amount returned
Denied(bill) == [unpaid |-> TRUE, ret |-> bill.amount]

\* needed_balance, the branch that asks the handler about the occurrence
\* last_payment.  answer is what the handler does: "yes", "no" or "raise".
\* kind is "paid" (go on to the proration), "denied" or "raised".
AskHandler(bill, c, bk, last_payment, answer) ==
    IF answer = "raise"
    THEN [kind |-> "raised", c |-> c, marked |-> {}]
    ELSE IF answer = "yes"
    THEN LET m == PaymentCache_mark_paid(bk, c, bill.name, last_payment)
         IN  [kind   |-> IF m.raised THEN "raised" ELSE "paid",
              c      |-> m.c,
              marked |-> {<<bill.name, last_payment>>}]
    ELSE [kind |-> "denied", c |-> c, marked |-> {}]

\* what a call of needed_balance leaves behind: the returned amount (ret),
\* whether an exception left the call (raised), the bill's unpaid flag and
\* the cache state after the call, and the occurrences the handler was
\* asked about (asked) and mark_paid was called for (marked)
Outcome(ret, raised, unpaid, c, asked, marked) ==
    [ret |-> ret, raised |-> raised, unpaid |-> unpaid, c |-> c,
     asked |-> asked, marked |-> marked]

\* Bill.needed_balance from the computation of last_payment on
NeededBalanceFrom(bill, c, bk, tdy, last_payment, last_pay_day, pay_period, check, answer) ==
    LET occ      == <<bill.name, last_payment>>
        prorated == Proration(bill, last_payment,
                              AddDelta(last_payment, bill.cycle),
                              last_pay_day, pay_period)
    IN  IF check /\ Recent(tdy, last_payment)
        THEN LET q == PaymentCache_is_paid(bk, c, bill.name, last_payment)
             IN  IF q.result
                 THEN Outcome(prorated, FALSE, bill.unpaid, q.c, {}, {})
                 ELSE IF bill.assumePaid
                 THEN Outcome(prorated, FALSE, bill.unpaid, q.c, {}, {})
                 ELSE LET h == AskHandler(bill, q.c, bk, last_payment, answer)
                      IN  IF h.kind = "raised"
                          THEN Outcome(0, TRUE, bill.unpaid, h.c, {occ}, h.marked)
                          ELSE IF h.kind = "paid"
                          THEN Outcome(prorated, FALSE, bill.unpaid, h.c,
                                       {occ}, h.marked)
                          ELSE Outcome(Denied(bill).ret, FALSE,
                                       Denied(bill).unpaid, h.c, {occ}, h.marked)
        ELSE Outcome(prorated, FALSE, bill.unpaid, c, {}, {})

\* Bill.needed_balance
needed_balance(bill, c, bk, tdy, on_day, last_pay_day, pay_period, check, answer) ==
    NeededBalanceFrom(bill, c, bk, tdy, last_due_date(bill, on_day, FALSE),
                      last_pay_day, pay_period, check, answer)

-----------------------------------------------------------------------------
(* Ledger *)

\* the default pay_period of needed_balance, in days
DefaultPayPeriod == 14

RECURSIVE SumSeq(_)
SumSeq(q) == IF q = <<>> THEN 0 ELSE Head(q) + SumSeq(Tail(q))

\* get_allocations, one turn of the loop: the outcome r of needed_balance
\* of bill i joins what was observed so far.  acc carries the bills, the
\* cache state, the allocations and what was observed.
AddOutcome(acc, i, r, answer) ==
    [bills       |-> [acc.bills EXCEPT ![i].unpaid = r.unpaid],
     c           |-> r.c,
     allocations |-> IF r.raised THEN acc.allocations
                     ELSE Append(acc.allocations, r.ret),
     raised      |-> r.raised,
     raisedAt    |-> IF r.raised THEN i ELSE 0,
     asked       |-> acc.asked \cup r.asked,
     marked      |-> acc.marked \cup r.marked,
     yes         |-> acc.yes \cup (IF answer = "yes" THEN r.asked ELSE {})]

\* get_allocations: needed_balance of every bill in turn, on today, with
\* the default pay period; an exception ends it.  answers maps a bill name
\* to what the handler does when asked about that bill.
RECURSIVE GetAllocationsFrom(_, _, _, _, _, _, _)
GetAllocationsFrom(acc, i, bk, tdy, last_pay_day, check, answers) ==
    IF i > Len(acc.bills) \/ acc.raised THEN acc
    ELSE GetAllocationsFrom(
             AddOutcome(acc, i,
                        needed_balance(acc.bills[i], acc.c, bk, tdy, tdy,
                                       last_pay_day, DefaultPayPeriod, check,
                                       answers[acc.bills[i].name]),
                        answers[acc.bills[i].name]),
             i + 1, bk, tdy, last_pay_day, check, answers)

get_allocations(bs, c, bk, tdy, last_pay_day, check, answers) ==
    GetAllocationsFrom(
        [bills |-> bs, c |-> c, allocations |-> <<>>, raised |-> FALSE,
         raisedAt |-> 0, asked |-> {}, marked |-> {}, yes |-> {}],
        1, bk, tdy, last_pay_day, check, answers)

\* floor(margin / 10) * 10, the margin in cents
RoundedMargin(margin) == (margin \div 1000) * 1000

\* find_current_margin with round_margin=True, from the result g of
\* get_allocations on: g with the rounded margin added
MarginOf(g, min_balance, current_balance) ==
    [g           |-> g,
     margin      |-> RoundedMargin(current_balance - min_balance
                                   - SumSeq(g.allocations)),
     allocations |-> g.allocations]

\* find_current_margin
find_current_margin(bs, min_balance, c, bk, tdy, last_pay_day, current_balance, check, answers) ==
    MarginOf(get_allocations(bs, c, bk, tdy, last_pay_day, check, answers),
             min_balance, current_balance)

\* apply_reservations, on the result f of find_current_margin
RECURSIVE apply_reservations(_, _)
apply_reservations(f, reservations) ==
    IF reservations = <<>> THEN f
    ELSE apply_reservations(
             [f EXCEPT !.margin = @ - Head(reservations),
                       !.allocations = Append(@, Head(reservations))],
             Tail(reservations))

\* Ledger.calculate
Ledger_calculate(bs, res, min_balance, c, bk, tdy, last_pay_day, balance, check_recent, answers) ==
    apply_reservations(
        find_current_margin(bs, min_balance, c, bk, tdy, last_pay_day,
                            balance, check_recent, answers),
        res)

-----------------------------------------------------------------------------
(* State shared by the specifications *)

EmptyCache == [payments |-> EmptyDict, payment_file |-> NoFile, table |-> {}]

\* the cache state held by the variables
Cache == [payments |-> payments, payment_file |-> payment_file, table |-> table]

\* the days a query date (start_date, due_date) is drawn from
Days == 0..MaxDay

-----------------------------------------------------------------------------
(* SpecDue: the due-date functions of one bill, applied to every date *)

DueCycles ==
    {CycleName("weekly"), CycleName("monthly"), CycleName("yearly"),
     CycleDict(0, 0, 0, 10)}

\* anchors: a 31st and a leap day (the day is clamped when months or years
\* are added), and two plain dates
DueAnchors ==
    {Ord(2020, 1, 31), Ord(2020, 2, 29), Ord(2020, 12, 4), Ord(2021, 1, 1)}

DueToday == Ord(2021, 1, 8)

\* the bill and the date the functions are applied to are drawn here
InitDue ==
    /\ \E cs \in DueCycles, a \in DueAnchors, u \in BOOLEAN :
          bills = <<Bill("Rent", 120000, cs, a, 1, 0, 1, FALSE, u, DueToday)>>
    /\ config = <<>>
    /\ reserved = <<>>
    /\ minimum_balance = 0
    /\ today = DueToday
    /\ backend = "json"
    /\ payments = EmptyDict
    /\ payment_file = NoFile
    /\ table = {}
    /\ confirmed = {}
    /\ \E d \in Days : last = [op |-> "init", start |-> d]

\* bill.last_due_date(start_date, ignore_unpaid)
LastDueDate(ignore_unpaid) ==
    /\ last' = [op |-> "last_due_date", start |-> last.start,
                ignore |-> ignore_unpaid,
                ret |-> last_due_date(bills[1], last.start, ignore_unpaid)]
    /\ UNCHANGED <<budgetVars, bills, today, backend, cacheVars, confirmed>>

\* bill.next_due_date(start_date)
NextDueDate ==
    /\ last' = [op |-> "next_due_date", start |-> last.start,
                ret |-> next_due_date(bills[1], last.start)]
    /\ UNCHANGED <<budgetVars, bills, today, backend, cacheVars, confirmed>>

\* bill.is_due(due_date)
IsDue ==
    /\ last' = [op |-> "is_due", start |-> last.start,
                ret |-> is_due(bills[1], last.start)]
    /\ UNCHANGED <<budgetVars, bills, today, backend, cacheVars, confirmed>>

NextDue ==
    \/ \E ig \in BOOLEAN : LastDueDate(ig)
    \/ NextDueDate
    \/ IsDue

SpecDue == InitDue /\ [][NextDue]_vars

\* the occurrences of a bill from o on that are <= upto: the anchor plus a
\* whole number of cycles
RECURSIVE OccurrencesFrom(_, _, _)
OccurrencesFrom(cycle, o, upto) ==
    IF o > upto THEN {}
    ELSE {o} \cup OccurrencesFrom(cycle, AddDelta(o, cycle), upto)

Occurrences(bill, upto) == OccurrencesFrom(bill.cycle, bill.lastPaid, upto)

\* C1: for a bill whose unpaid flag is clear and a date d on or after its
\* anchor, last_due_date(d) is an occurrence, it is the latest occurrence
\* that is <= d (so it is d when d is an occurrence), and
\* last_due_date(d) <= d < next_due_date(d + 1).
C1_LastDueIsLatestOccurrence ==
    (last.op = "last_due_date" /\ ~bills[1].unpaid
        /\ last.start >= bills[1].lastPaid)
    => LET occ == Occurrences(bills[1], last.start)
       IN  /\ last.ret \in occ
           /\ \A o \in occ : o <= last.ret
           /\ last.ret <= last.start
           /\ last.start < next_due_date(bills[1], last.start + 1)
           /\ (last.start \in occ => last.ret = last.start)

\* C2: when the unpaid flag is set, last_due_date(d, ignore_unpaid=False)
\* is exactly one cycle before last_due_date(d, ignore_unpaid=True), the
\* anchor included.
C2_UnpaidIsOneCycleEarlier ==
    (last.op = "last_due_date" /\ bills[1].unpaid /\ ~last.ignore)
    => AddDelta(last.ret, bills[1].cycle)
          = last_due_date(bills[1], last.start, TRUE)

-----------------------------------------------------------------------------
(* SpecAlloc: needed_balance of one bill with the check disabled, on_day  *)
(* advancing day by day                                                   *)

AllocCycles ==
    {CycleName("weekly"), CycleName("monthly"), CycleName("yearly"),
     CycleDict(0, 0, 0, 10)}

\* anchors: a Friday that is a 31st, and a Wednesday
AllocAnchors == {Ord(2020, 1, 31), Ord(2020, 3, 4)}

\* the values of last_pay_day (Fridays) and of pay_period, in days
AllocPayDays == {Ord(2020, 12, 25), Ord(2021, 1, 22)}
AllocPayPeriods == {7, DefaultPayPeriod}

\* the first value of on_day
AllocFirstDay == Ord(2020, 11, 1)

InitAlloc ==
    /\ \E cs \in AllocCycles, a \in AllocAnchors, u \in BOOLEAN :
          bills = <<Bill("Rent", 120000, cs, a, 1, 0, 1, FALSE, u, DueToday)>>
    /\ config = <<>>
    /\ reserved = <<>>
    /\ minimum_balance = 0
    /\ today = DueToday
    /\ backend = "json"
    /\ payments = EmptyDict
    /\ payment_file = NoFile
    /\ table = {}
    /\ confirmed = {}
    /\ \E d \in AllocFirstDay..MaxDay, p \in AllocPayDays, pp \in AllocPayPeriods :
          last = [op |-> "init", on_day |-> d, last_pay_day |-> p,
                  pay_period |-> pp]

\* what last records of bills[1].needed_balance(on_day, last_pay_day,
\* pay_period): the result and the last_payment it was computed from
Allocation(op, on_day, prev) ==
    [op |-> op, on_day |-> on_day, last_pay_day |-> last.last_pay_day,
     pay_period |-> last.pay_period,
     ret |-> needed_balance(bills[1], Cache, backend, today, on_day,
                            last.last_pay_day, last.pay_period, FALSE, "no").ret,
     last_payment |-> last_due_date(bills[1], on_day, FALSE),
     prev |-> prev]

\* bills[1].needed_balance(on_day, last_pay_day, pay_period)
NeededAt ==
    /\ last.op = "init"
    /\ last' = Allocation("needed_balance", last.on_day, <<>>)
    /\ UNCHANGED <<budgetVars, bills, today, backend, cacheVars, confirmed>>

\* the same call one day later; prev keeps the result of the day before
Advance ==
    /\ last.op # "init"
    /\ last.on_day < MaxDay
    /\ last' = Allocation("advance", last.on_day + 1,
                          <<[ret |-> last.ret,
                             last_payment |-> last.last_payment]>>)
    /\ UNCHANGED <<budgetVars, bills, today, backend, cacheVars, confirmed>>

NextAlloc ==
    \/ NeededAt
    \/ Advance

SpecAlloc == InitAlloc /\ [][NextAlloc]_vars

\* the due date needed_balance prorates towards
AllocNextPayment == AddDelta(last.last_payment, bills[1].cycle)

\* a date falls inside the current pay period
InPayPeriod(d) ==
    last.last_pay_day < d /\ d < last.last_pay_day + last.pay_period

\* the occurrences after last_payment that fall before the next pay day
DueBeforePayDay ==
    OccurrencesFrom(bills[1].cycle, AllocNextPayment,
                    last.last_pay_day + last.pay_period - 1)

-----------------------------------------------------------------------------
(* Spec: a budget, the payment cache and the operations on them, over     *)
(* runs of the program                                                    *)

\* the day of the first run (a Saturday)
FirstDay == Ord(2021, 1, 16)

\* how many days later than FirstDay a later run may take place
MaxLater == 1

\* a bill of the budget file
BillConfig(name, amount, cycleSpec, lastPaid, day, assumePaid) ==
    [name |-> name, amount |-> amount, cycle |-> cycleSpec,
     lastPaid |-> lastPaid, day |-> day, weekday |-> 0, month |-> 1,
     assumePaid |-> assumePaid]

\* bills that were due the day before FirstDay: a weekly one with a
\* configured anchor, a monthly one whose anchor is derived from today, and
\* a monthly one that is assumed paid
Food == BillConfig("Food", 6000, CycleName("weekly"), Ord(2021, 1, 1), 1, FALSE)
Rent == BillConfig("Rent", 120000, CycleName("monthly"), None, 15, FALSE)
Club == BillConfig("Club", 7000, CycleName("monthly"), Ord(2020, 12, 15), 1, TRUE)

\* the budgets: the bills and the reservations
Budgets ==
    {[bills |-> <<Food>>, reserved |-> <<>>],
     [bills |-> <<Club, Food>>, reserved |-> <<500>>],
     [bills |-> <<Rent, Food>>, reserved |-> <<500>>]}

\* Budget.__post_init__: the bills built from their configuration
BuildBills(cfg, tdy) ==
    [i \in DOMAIN cfg |->
        Bill(cfg[i].name, cfg[i].amount, cfg[i].cycle, cfg[i].lastPaid,
             cfg[i].day, cfg[i].weekday, cfg[i].month, cfg[i].assumePaid,
             FALSE, tdy)]

\* the names of the bills of the budget
Names == {config[i].name : i \in DOMAIN config}

\* what the handler does when asked: it confirms, denies or raises
Answers == {"yes", "no", "raise"}

\* the handlers a call is given: with the check disabled the handler is
\* never called, and one handler stands for all
Handlers(check) == IF check THEN Answers ELSE {"no"}

\* the dates given to needed_balance as on_day and as last_pay_day
OnDays == {today, today + 7}

LastPayDays == {FirstDay - 6}

\* the dates the cache is asked about directly
CacheDates == {FirstDay - 1}

Balances == {204780}

Init ==
    /\ \E b \in Budgets : config = b.bills /\ reserved = b.reserved
    /\ today = FirstDay
    /\ bills = BuildBills(config, today)
    /\ minimum_balance = 10000
    /\ backend \in {"json", "sqlite"}
    /\ payments = EmptyDict
    /\ payment_file = NoFile
    /\ table = {}
    /\ confirmed = {}
    /\ last = [op |-> "init"]

\* confirmed holds the occurrences the handler confirmed as paid, each
\* with the day of the run that asked
ConfirmedToday(occs) == {<<occ[1], occ[2], today>> : occ \in occs}

SetCache(c) ==
    /\ payments' = c.payments
    /\ payment_file' = c.payment_file
    /\ table' = c.table

\* bills[i].needed_balance(on_day, last_pay_day, check=check,
\* check_handler=a handler that answers `answer`)
NeededBalance(i, on_day, last_pay_day, check, answer) ==
    \E r \in {needed_balance(bills[i], Cache, backend, today, on_day,
                             last_pay_day, DefaultPayPeriod, check, answer)} :
        /\ bills' = [bills EXCEPT ![i].unpaid = r.unpaid]
        /\ SetCache(r.c)
        /\ confirmed' = confirmed \cup
                (IF answer = "yes" THEN ConfirmedToday(r.asked) ELSE {})
        /\ last' = [op |-> "needed_balance", i |-> i, on_day |-> on_day,
                    last_pay_day |-> last_pay_day, check |-> check,
                    answer |-> answer, ret |-> r.ret, raised |-> r.raised,
                    asked |-> r.asked, marked |-> r.marked]
        /\ UNCHANGED <<budgetVars, today, backend>>

\* Ledger.calculate(last_pay_day, balance, check_recent), the handler
\* answering answers[name] when asked about the bill name
Calculate(last_pay_day, balance, check_recent, answers) ==
    \E r \in {Ledger_calculate(bills, reserved, minimum_balance, Cache, backend,
                               today, last_pay_day, balance, check_recent,
                               answers)} :
        /\ bills' = r.g.bills
        /\ SetCache(r.g.c)
        /\ confirmed' = confirmed \cup ConfirmedToday(r.g.yes)
        /\ last' = [op |-> "calculate", last_pay_day |-> last_pay_day,
                    balance |-> balance, check |-> check_recent,
                    answers |-> answers, raised |-> r.g.raised,
                    raisedAt |-> r.g.raisedAt,
                    margin |-> IF r.g.raised THEN 0 ELSE r.margin,
                    allocations |-> IF r.g.raised THEN <<>> ELSE r.allocations,
                    asked |-> r.g.asked, marked |-> r.g.marked]
        /\ UNCHANGED <<budgetVars, today, backend>>

\* PAYMENT_CACHE.is_paid(bill_name, paid_date)
IsPaid(bill_name, paid_date) ==
    \E r \in {PaymentCache_is_paid(backend, Cache, bill_name, paid_date)} :
        /\ SetCache(r.c)
        /\ last' = [op |-> "is_paid", name |-> bill_name, date |-> paid_date,
                    ret |-> r.result, raised |-> r.raised]
        /\ UNCHANGED <<budgetVars, bills, today, backend, confirmed>>

\* PAYMENT_CACHE.mark_paid(bill_name, paid_date)
MarkPaid(bill_name, paid_date) ==
    \E r \in {PaymentCache_mark_paid(backend, Cache, bill_name, paid_date)} :
        /\ SetCache(r.c)
        /\ last' = [op |-> "mark_paid", name |-> bill_name, date |-> paid_date,
                    raised |-> r.raised]
        /\ UNCHANGED <<budgetVars, bills, today, backend, confirmed>>

\* PaymentCacheJSON.save()
Save ==
    /\ backend = "json"
    /\ SetCache(JSON_save(Cache))
    /\ last' = [op |-> "save"]
    /\ UNCHANGED <<budgetVars, bills, today, backend, confirmed>>

\* PaymentCacheJSON.load()
Load ==
    /\ backend = "json"
    /\ SetCache(JSON_load(Cache))
    /\ last' = [op |-> "load"]
    /\ UNCHANGED <<budgetVars, bills, today, backend, confirmed>>

\* the process ends and the program is started again, the same day or
\* later: the cache object and the budget are built anew
Restart(tdy) ==
    /\ tdy <= FirstDay + MaxLater
    /\ today' = tdy
    /\ bills' = BuildBills(config, tdy)
    /\ SetCache(PaymentCache_init(backend, Cache))
    /\ last' = [op |-> "restart"]
    /\ UNCHANGED <<budgetVars, backend, confirmed>>

Next ==
    \/ \E i \in DOMAIN bills, d \in OnDays, p \in LastPayDays,
          ck \in BOOLEAN : \E a \in Handlers(ck) : NeededBalance(i, d, p, ck, a)
    \/ \E p \in LastPayDays, bal \in Balances, ck \in BOOLEAN :
          \E ans \in [Names -> Handlers(ck)] : Calculate(p, bal, ck, ans)
    \/ \E n \in Names, d \in CacheDates : IsPaid(n, d)
    \/ \E n \in Names, d \in CacheDates : MarkPaid(n, d)
    \/ Save
    \/ Load
    \/ \E tdy \in {today, today + 1} : Restart(tdy)

Spec == Init /\ [][Next]_vars

-----------------------------------------------------------------------------
(* What the claims read of a state *)

\* is_paid answers True for the occurrence, asked of the cache state c
ReportedPaid(c, bill_name, paid_date) ==
    PaymentCache_is_paid(backend, c, bill_name, paid_date).result

\* the entries is_paid answers True for
PaidEntries ==
    IF backend = "json"
    THEN UNION {{<<n, d>> : d \in payments[n]} : n \in DOMAIN payments}
    ELSE {<<r[1], fromisoformat(r[2])>> : r \in table}

\* the occurrence needed_balance of bill i looks at for on_day
LastPayment(i, on_day) == last_due_date(bills[i], on_day, FALSE)

\* the conditions under which needed_balance of bill i turns to the
\* handler: check enabled, occurrence recent, no cache entry, not assumePaid
HandlerDue(i, on_day, check) ==
    /\ check
    /\ Recent(today, LastPayment(i, on_day))
    /\ ~ReportedPaid(Cache, bills[i].name, LastPayment(i, on_day))
    /\ ~bills[i].assumePaid

\* the bills for which calculate turns to a handler that raises
Raising(answers) ==
    {i \in DOMAIN bills : HandlerDue(i, today, TRUE) /\ answers[bills[i].name] = "raise"}

Min(S) == CHOOSE i \in S : \A j \in S : i <= j

\* C3: after a call of needed_balance that returned, the same call again
\* (same bill, on_day, last_pay_day, pay_period, check and handler answer,
\* the cache as the first call left it) returns the same amount.
C3_NeededBalanceIdempotent ==
    (last.op = "needed_balance" /\ ~last.raised)
    => \A again \in {needed_balance(bills[last.i], Cache, backend, today,
                                    last.on_day, last.last_pay_day,
                                    DefaultPayPeriod, last.check, last.answer)} :
          ~again.raised /\ again.ret = last.ret

\* C5: the margin Ledger.calculate returns is the raw margin (balance minus
\* minimum balance minus every allocation, the reservations included)
\* rounded down to a multiple of 10: a multiple of 10, <= the raw margin
\* and > the raw margin minus 10.
C5_MarginRoundedDown ==
    (last.op = "calculate" /\ ~last.raised)
    => \A raw \in {last.balance - minimum_balance - SumSeq(last.allocations)} :
          /\ last.margin % 1000 = 0
          /\ last.margin <= raw
          /\ last.margin > raw - 1000

\* C6: a call of needed_balance with the check enabled, a recent last due
\* date without cache entry, a bill that is not assumePaid and a handler
\* answering "not paid" sets the unpaid flag, returns the amount, calls
\* mark_paid for nothing and leaves the cache as it was.
C6_DenialSetsUnpaid ==
    [][(/\ last'.op = "needed_balance"
        /\ last'.answer = "no"
        /\ HandlerDue(last'.i, last'.on_day, last'.check))
       => /\ ~last'.raised
          /\ bills'[last'.i].unpaid
          /\ last'.ret = bills[last'.i].amount
          /\ last'.marked = {}
          /\ cacheVars' = cacheVars]_vars

\* C7: when the handler raises, the exception leaves needed_balance and
\* Ledger.calculate, no mark_paid call is made for the occurrence, the
\* unpaid flag of the bill is as before, and after needed_balance the cache,
\* in memory and persisted, is as before.
C7_RaiseCommitsNothing ==
    [][/\ (/\ last'.op = "needed_balance"
           /\ last'.answer = "raise"
           /\ HandlerDue(last'.i, last'.on_day, last'.check))
          => /\ last'.raised
             /\ last'.marked = {}
             /\ bills' = bills
             /\ cacheVars' = cacheVars
       /\ (/\ last'.op = "calculate"
           /\ last'.check
           /\ Raising(last'.answers) # {})
          => /\ last'.raised
             /\ last'.raisedAt = Min(Raising(last'.answers))
             /\ bills'[last'.raisedAt].unpaid = bills[last'.raisedAt].unpaid
             /\ \A m \in last'.marked : m[1] # bills[last'.raisedAt].name]_vars

\* the occurrence of a needed_balance or calculate call is one the handler
\* may be asked about: check enabled, recent, no cache entry, not assumePaid
MayAsk(occ) ==
    \E i \in DOMAIN bills :
        /\ bills[i].name = occ[1]
        /\ Recent(today, occ[2])
        /\ ~ReportedPaid(Cache, occ[1], occ[2])
        /\ ~bills[i].assumePaid

\* C8: an occurrence the handler confirmed is in the cache when the call
\* returns, and stays reported paid, also by the cache a restart builds;
\* no later needed_balance or calculate asks the handler about it again;
\* and the handler is asked only with the check enabled, about a recent
\* occurrence without cache entry of a bill that is not assumePaid.
C8_ConfirmedNeverAskedAgain ==
    [][/\ \A e \in confirmed' :
            /\ ReportedPaid(Cache', e[1], e[2])
            /\ ReportedPaid(PaymentCache_init(backend', Cache'), e[1], e[2])
       /\ (last'.op \in {"needed_balance", "calculate"})
          => \A occ \in last'.asked :
                /\ \A e \in confirmed : <<e[1], e[2]>> # occ
                /\ last'.check
                /\ MayAsk(occ)]_vars

\* C8 witness: on a later day than the run in which the handler confirmed
\* an occurrence, needed_balance looked at that occurrence with the check
\* enabled, the occurrence still recent, and did not ask the handler
C8_Witness ==
    /\ last.op = "needed_balance"
    /\ last.check
    /\ last.asked = {}
    /\ ~bills[last.i].assumePaid
    /\ Recent(today, LastPayment(last.i, last.on_day))
    /\ \E e \in confirmed :
          /\ e[1] = bills[last.i].name
          /\ e[2] = LastPayment(last.i, last.on_day)
          /\ e[3] < today

\* C9: the entries is_paid answers True for only grow, over every
\* operation and restart, and a call of is_paid leaves the cache, in memory
\* and persisted, as it was.
C9_EntriesOnlyGrow ==
    [][/\ \A e \in PaidEntries : ReportedPaid(Cache', e[1], e[2])
       /\ (last'.op = "is_paid" => cacheVars' = cacheVars)]_vars

\* C10: mark_paid called again with the bill name and date of the call
\* before it raises nothing and leaves the cache, in memory and persisted,
\* as the first call left it, whichever the cache implementation.
C10_MarkPaidIdempotent ==
    [][(/\ last.op = "mark_paid" /\ ~last.raised
        /\ last'.op = "mark_paid"
        /\ last'.name = last.name /\ last'.date = last.date)
       => /\ ~last'.raised
          /\ cacheVars' = cacheVars]_vars

-----------------------------------------------------------------------------
(* SpecCrash: the payment cache with mark_paid taken step by step, the    *)
(* process crashing at any point and being started again                  *)

\* the file after open("w") has truncated it and before json.dump has
\* written it and the file was closed: no JSON document
TornFile == [exists |-> TRUE, data |-> EmptyDict, torn |-> TRUE]

\* json.load raises on the file
LoadRaises(f) == f.exists /\ "torn" \in DOMAIN f

CrashNames == {"Food", "Rent"}

CrashDates == {FirstDay - 8, FirstDay - 1}

\* last.pc is the position of the process: idle between calls, inside
\* mark_paid (open, dump, commit), or dead when the start failed
InitCrash ==
    /\ config = <<>>
    /\ bills = <<>>
    /\ reserved = <<>>
    /\ minimum_balance = 0
    /\ today = FirstDay
    /\ backend \in {"json", "sqlite"}
    /\ payments = EmptyDict
    /\ payment_file = NoFile
    /\ table = {}
    /\ confirmed = {}
    /\ last = [op |-> "init", pc |-> "idle"]

\* mark_paid up to its first write: PaymentCacheJSON adds the entry in
\* memory and enters save; PaymentCacheSqlite executes the INSERT, which
\* raises when the row exists and otherwise awaits the commit
BeginMarkPaid(bill_name, paid_date) ==
    /\ last.pc = "idle"
    /\ IF backend = "json"
       THEN /\ payments' = [WithBucket(payments, bill_name)
                               EXCEPT ![bill_name] = @ \cup {paid_date}]
            /\ last' = [op |-> "mark_paid", pc |-> "open",
                        name |-> bill_name, date |-> paid_date]
       ELSE /\ payments' = payments
            /\ last' = [op |-> "mark_paid",
                        pc |-> IF <<bill_name, isoformat(paid_date)>> \in table
                               THEN "idle" ELSE "commit",
                        name |-> bill_name, date |-> paid_date]
    /\ UNCHANGED <<budgetVars, bills, today, backend, payment_file, table,
                   confirmed>>

\* save: self.payment_file.open("w") truncates the file
OpenFile ==
    /\ last.pc = "open"
    /\ payment_file' = TornFile
    /\ last' = [last EXCEPT !.pc = "dump"]
    /\ UNCHANGED <<budgetVars, bills, today, backend, payments, table, confirmed>>

\* save: json.dump writes the document, the file is closed, and mark_paid
\* returns
DumpFile ==
    /\ last.pc = "dump"
    /\ payment_file' = JSON_save(Cache).payment_file
    /\ confirmed' = confirmed \cup ConfirmedToday({<<last.name, last.date>>})
    /\ last' = [last EXCEPT !.pc = "idle"]
    /\ UNCHANGED <<budgetVars, bills, today, backend, payments, table>>

\* _cursor: con.commit() makes the inserted row durable, and mark_paid
\* returns
Commit ==
    /\ last.pc = "commit"
    /\ table' = table \cup {<<last.name, isoformat(last.date)>>}
    /\ confirmed' = confirmed \cup ConfirmedToday({<<last.name, last.date>>})
    /\ last' = [last EXCEPT !.pc = "idle"]
    /\ UNCHANGED <<budgetVars, bills, today, backend, payments, payment_file>>

\* PAYMENT_CACHE.is_paid(bill_name, paid_date)
CrashIsPaid(bill_name, paid_date) ==
    /\ last.pc = "idle"
    /\ \E r \in {PaymentCache_is_paid(backend, Cache, bill_name, paid_date)} :
          /\ SetCache(r.c)
          /\ last' = [op |-> "is_paid", pc |-> "idle", name |-> bill_name,
                      date |-> paid_date, ret |-> r.result]
    /\ UNCHANGED <<budgetVars, bills, today, backend, confirmed>>

\* the process dies, wherever it is, and the program is started again:
\* PAYMENT_CACHE = PaymentCache() builds the cache anew.  An INSERT that
\* was not committed is gone; a file that holds no JSON document makes
\* load raise, and the program does not start.
CrashRestart ==
    /\ IF backend = "json" /\ LoadRaises(payment_file)
       THEN /\ payments' = EmptyDict
            /\ UNCHANGED <<payment_file, table>>
            /\ last' = [op |-> "restart", pc |-> "dead"]
       ELSE /\ SetCache(PaymentCache_init(backend, Cache))
            /\ last' = [op |-> "restart", pc |-> "idle"]
    /\ UNCHANGED <<budgetVars, bills, today, backend, confirmed>>

NextCrash ==
    \/ \E n \in CrashNames, d \in CrashDates : BeginMarkPaid(n, d)
    \/ OpenFile
    \/ DumpFile
    \/ Commit
    \/ \E n \in CrashNames, d \in CrashDates : CrashIsPaid(n, d)
    \/ CrashRestart

SpecCrash == InitCrash /\ [][NextCrash]_vars

\* C11: after a crash at any point and the restart, the cache reports paid
\* every entry whose mark_paid call had returned before the crash, in this
\* run or an earlier one.
C11_AcknowledgedSurvivesCrash ==
    (last.op = "restart")
    => \A e \in confirmed : ReportedPaid(Cache, e[1], e[2])

-----------------------------------------------------------------------------
(* SpecPay: SpecAlloc with the bill marked as paid ahead                  *)

\* Bill.pay
pay(bill) == [bill EXCEPT !.paid_next = TRUE]

\* Budget.__post_init__: every bill whose name is in the paid list is paid
PayListed(bs, paid) ==
    [i \in DOMAIN bs |-> IF bs[i].name \in paid THEN pay(bs[i]) ELSE bs[i]]

\* the paid lists a budget is built with
PaidLists == {{}, {"Rent"}, {"Gas", "Rent"}}

\* bills[1].pay(); needed_balance is to be called anew
Pay ==
    /\ bills' = [bills EXCEPT ![1] = pay(bills[1])]
    /\ last' = [op |-> "init", on_day |-> last.on_day,
                last_pay_day |-> last.last_pay_day,
                pay_period |-> last.pay_period]
    /\ UNCHANGED <<budgetVars, today, backend, cacheVars, confirmed>>

\* the budget is built with a paid list
BudgetPaid(paid) ==
    /\ bills' = PayListed(bills, paid)
    /\ last' = [op |-> "init", on_day |-> last.on_day,
                last_pay_day |-> last.last_pay_day,
                pay_period |-> last.pay_period]
    /\ UNCHANGED <<budgetVars, today, backend, cacheVars, confirmed>>

NextPay ==
    \/ NeededAt
    \/ Advance
    \/ Pay
    \/ \E paid \in PaidLists : BudgetPaid(paid)

SpecPay == InitAlloc /\ [][NextPay]_vars

\* needed_balance of the same call for the bill with the paid_next flag clear
UnflaggedAllocation ==
    needed_balance([bills[1] EXCEPT !.paid_next = FALSE], Cache, backend, today, last.on_day, last.last_pay_day, last.pay_period, FALSE, "no").ret

\* C12: for a bill whose paid_next flag is set, whenever needed_balance
\* without the flag would be at least one amount, needed_balance returns
\* exactly one amount less than that.
C12_PaidAheadSuppressed ==
    (/\ last.op \in {"needed_balance", "advance"}
     /\ bills[1].paid_next
     /\ UnflaggedAllocation >= bills[1].amount)
    => last.ret = UnflaggedAllocation - bills[1].amount

-----------------------------------------------------------------------------
(* Short cycles, under SpecAlloc *)

\* the cycle of the bill is a number of days smaller than the pay period
ShortCycle ==
    /\ bills[1].cycle.years = 0
    /\ bills[1].cycle.months = 0
    /\ bills[1].cycle.days < last.pay_period

\* C13: for a bill whose cycle is shorter than the pay period,
\* needed_balance is the amount times the number of occurrences strictly
\* after last_due_date(on_day) and strictly before last_pay_day +
\* pay_period; with last_pay_day fixed it drops by one amount each time
\* on_day advances past an occurrence before the next pay day and is
\* otherwise unchanged, and for a weekly bill and a 14-day pay period it
\* is 2, 1 or 0 times the amount from last_pay_day on, 0 from the next pay
\* day on.
C13_ShortCycleCountsOccurrences ==
    (last.op \in {"needed_balance", "advance"} /\ ShortCycle)
    => /\ last.ret = bills[1].amount * Cardinality(DueBeforePayDay)
       /\ (last.op = "advance" /\ ~bills[1].unpaid)
          => last.ret = last.prev[1].ret
                          - (IF /\ is_due(bills[1], last.on_day - 1)
                                /\ last.on_day - 1 < last.last_pay_day + last.pay_period
                             THEN bills[1].amount ELSE 0)
       /\ (/\ bills[1].cycle = WEEKLY /\ last.pay_period = DefaultPayPeriod
           /\ ~bills[1].unpaid /\ last.on_day >= last.last_pay_day)
          => /\ last.ret \in {2 * bills[1].amount, bills[1].amount, 0}
             /\ (last.on_day > last.last_pay_day + last.pay_period => last.ret = 0)

-----------------------------------------------------------------------------
(* The sign of the allocation, under SpecAlloc *)

\* pay_days_since_last_payment of the call last records, after the
\* decrement for a last payment that is a pay day
AllocSince ==
    PayDaysSinceLastPayment(last.last_payment, last.last_pay_day, last.pay_period)

\* C16: for every on_day, last_pay_day and pay_period, a stale last_pay_day
\* and a last due date on a later pay day included, needed_balance is not
\* negative, the count of pay days since the last payment is not negative
\* after the decrement, and the result is at most the amount times the
\* number of occurrences due before the next pay day, or the amount.
C16_NeverNegative ==
    (last.op \in {"needed_balance", "advance"})
    => /\ last.ret >= 0
       /\ AllocSince >= 0
       /\ \/ last.ret <= bills[1].amount
          \/ last.ret <= bills[1].amount * Cardinality(DueBeforePayDay)

-----------------------------------------------------------------------------
(* The linear proration, under SpecAlloc *)

\* the pay days: last_pay_day plus or minus a whole number of pay periods
IsPayDay(p) == (p - last.last_pay_day) % last.pay_period = 0

\* the pay days from the last due date up to and including last_pay_day,
\* the last due date itself left out
PayDaysSinceDue ==
    {p \in (last.last_payment + 1)..last.last_pay_day : IsPayDay(p)}

\* the pay days from last_pay_day + pay_period on that are strictly before
\* the next due date
PayDaysUntilDue ==
    {p \in (last.last_pay_day + last.pay_period)..(AllocNextPayment - 1) : IsPayDay(p)}

\* C14: when at most one occurrence is due before the next pay day and the
\* count of pay days since the last due date plus the count until the next
\* one is not zero, needed_balance is amount * since / (since + until)
\* rounded to the cent: half the amount one pay period into a cycle of two,
\* 3/26 of it three pay periods into a cycle of 26.
C14_LinearProration ==
    (/\ last.op \in {"needed_balance", "advance"}
     /\ Cardinality(DueBeforePayDay) <= 1
     /\ Cardinality(PayDaysSinceDue) + Cardinality(PayDaysUntilDue) # 0)
    => last.ret = RoundDiv(bills[1].amount * Cardinality(PayDaysSinceDue),
                           Cardinality(PayDaysSinceDue) + Cardinality(PayDaysUntilDue))


-----------------------------------------------------------------------------
(* SpecCycle: the stepping loops of one bill, one iteration at a time *)

\* the cycles a configuration can give: the three names, and dictionaries
\* of relativedelta arguments (years, months, weeks, days)
CycleSpecs ==
    {CycleName("weekly"), CycleName("monthly"), CycleName("yearly"),
     CycleName("daily"),
     CycleDict(0, 0, 0, 10), CycleDict(0, 0, 0, 0), CycleDict(0, 0, 0, -7),
     CycleDict(0, 1, 0, -30)}

\* anchors: a Wednesday, and a Sunday that is a 31st; None is no lastPaid
CycleAnchors == {None, Ord(2020, 3, 4), Ord(2020, 5, 31)}

\* the dates the loops are asked about, and the values of last_pay_day
CycleQueryDays ==
    {Ord(2020, 3, 1), Ord(2020, 3, 20), Ord(2020, 5, 31), Ord(2020, 6, 20)}
CyclePayDays == {Ord(2020, 3, 6), Ord(2020, 5, 29)}

\* iterations of one loop the model follows
MaxSteps == 6

\* the Bills that Bill(...) constructs without raising
AcceptedBills ==
    {b \in {Bill("Rent", 120000, cs, a, 1, 0, 1, FALSE, FALSE, DueToday) :
               cs \in CycleSpecs, a \in CycleAnchors} : b # ValueError}

InitCycle ==
    /\ \E b \in AcceptedBills : bills = <<b>>
    /\ config = <<>>
    /\ reserved = <<>>
    /\ minimum_balance = 0
    /\ today = DueToday
    /\ backend = "json"
    /\ payments = EmptyDict
    /\ payment_file = NoFile
    /\ table = {}
    /\ confirmed = {}
    /\ last = [op |-> "init", pc |-> "idle"]

\* a call of is_due, next_due_date, last_due_date or needed_balance enters
\* its first loop with the anchor lastPaid
Call(op, d, p) ==
    /\ last.pc \in {"idle", "returned"}
    /\ last' = [op |-> op, pc |-> "loop", arg |-> d, last_pay_day |-> p,
                from |-> bills[1].lastPaid, to |-> d,
                cur |-> bills[1].lastPaid, steps |-> 0]
    /\ UNCHANGED <<budgetVars, bills, today, backend, cacheVars, confirmed>>

\* the loop conditions: "while last_billed < due_date" of is_due and
\* next_due_date, "while (last_due + self.cycle) < start_date" of
\* last_due_date (which needed_balance calls first)
LoopCondition ==
    IF last.op \in {"is_due", "next_due_date"}
    THEN last.cur < last.arg
    ELSE AddDelta(last.cur, bills[1].cycle) < last.arg

\* one iteration: "+= self.cycle"
Step ==
    /\ last.pc = "loop"
    /\ last.steps < MaxSteps
    /\ LoopCondition
    /\ last' = [last EXCEPT !.cur = AddDelta(last.cur, bills[1].cycle),
                            !.steps = last.steps + 1]
    /\ UNCHANGED <<budgetVars, bills, today, backend, cacheVars, confirmed>>

\* is_due, next_due_date and last_due_date leave the loop and return
Return ==
    /\ last.pc = "loop"
    /\ last.op # "needed_balance"
    /\ ~LoopCondition
    /\ last' = [op |-> last.op, pc |-> "returned", arg |-> last.arg,
                ret |-> IF last.op = "is_due" THEN <<last.arg = last.cur>>
                        ELSE <<last.cur>>]
    /\ UNCHANGED <<budgetVars, bills, today, backend, cacheVars, confirmed>>

\* needed_balance has its last_payment and enters the loop that counts the
\* payments before the next pay day: current = last_payment + self.cycle
EnterPayments ==
    /\ last.pc = "loop"
    /\ last.op = "needed_balance"
    /\ ~LoopCondition
    /\ last' = [op |-> last.op, pc |-> "payments", arg |-> last.arg,
                last_pay_day |-> last.last_pay_day,
                last_payment |-> last.cur,
                from |-> AddDelta(last.cur, bills[1].cycle),
                to |-> last.last_pay_day + DefaultPayPeriod,
                cur |-> AddDelta(last.cur, bills[1].cycle), steps |-> 0]
    /\ UNCHANGED <<budgetVars, bills, today, backend, cacheVars, confirmed>>

\* one iteration of "while current < next_pay_day"
StepPayments ==
    /\ last.pc = "payments"
    /\ last.steps < MaxSteps
    /\ last.cur < last.to
    /\ last' = [last EXCEPT !.cur = AddDelta(last.cur, bills[1].cycle),
                            !.steps = last.steps + 1]
    /\ UNCHANGED <<budgetVars, bills, today, backend, cacheVars, confirmed>>

\* needed_balance leaves the loop and returns its allocation
ReturnNeeded ==
    /\ last.pc = "payments"
    /\ ~(last.cur < last.to)
    /\ last' = [op |-> last.op, pc |-> "returned", arg |-> last.arg,
                ret |-> <<NeededBalanceFrom(bills[1], Cache, backend, today,
                                            last.last_payment, last.last_pay_day,
                                            DefaultPayPeriod, FALSE, "no").ret>>]
    /\ UNCHANGED <<budgetVars, bills, today, backend, cacheVars, confirmed>>

NextCycle ==
    \/ \E op \in {"is_due", "next_due_date", "last_due_date", "needed_balance"},
          d \in CycleQueryDays, p \in CyclePayDays : Call(op, d, p)
    \/ Step
    \/ Return
    \/ EnterPayments
    \/ StepPayments
    \/ ReturnNeeded

SpecCycle == InitCycle /\ [][NextCycle]_vars

\* the most iterations a loop from one date up to another can make when
\* every iteration moves its date at least one day later
Distance(from, to) == IF to > from THEN to - from ELSE 0

\* C15: every Bill that construction accepts, a cycle from a dictionary of
\* offsets included, has a cycle that moves every date to a strictly later
\* date, so the loops of is_due, next_due_date, last_due_date and
\* needed_balance terminate: a loop never makes more iterations than there
\* are days between the date it starts from and the date it runs up to.
C15_CycleStrictlyForward ==
    /\ \A d \in Days : AddDelta(d, bills[1].cycle) > d
    /\ (last.pc \in {"loop", "payments"})
       => last.steps <= Distance(last.from, last.to)

=============================================================================
